---------------------------- MODULE Spec2Model ----------------------------
(***************************************************************************)
(* Model of the load generator (src/loadgen/loadgen.py): the JSON-RPC      *)
(* transport Rpc, the transaction path (rate_limiter ticks, run.one behind *)
(* the semaphore, send_tx) and the metrics sampler.                        *)
(*                                                                         *)
(* The program runs on one asyncio event loop: a task runs without         *)
(* interruption from one suspension point (an await that really suspends:  *)
(* the HTTP post, a sleep, a wait on the semaphore) to the next.  Each     *)
(* action below is one such uninterrupted run of one task.  The wall clock *)
(* is not part of this state machine: a sleep ends at some later step.     *)
(*                                                                         *)
(* Numbers the code computes in floating point (the gauges) are modelled   *)
(* as exact fractions <<numerator, denominator>> in lowest terms.  Hex     *)
(* strings of a block (number, timestamp, gasUsed) are modelled by the     *)
(* integers int(.., 16) reads from them.                                   *)
(***************************************************************************)
EXTENDS Integers, Sequences, FiniteSets

(* ------------------------------ bounds -------------------------------- *)
\* ticks of the pacer explored by Spec (one unit of work per tick)
MaxUnits == 2
\* sampling windows explored by SpecSampler
MaxWindows == 2
\* slots of the gate, the environment's CONCURRENCY (small, so that it fills)
CONCURRENCY == 1

\* the clock is followed up to this reading by SpecRead
MaxTime == 2
\* the clock is followed up to this reading by SpecPace
MaxPaceTime == 10

(* ------------------------- program constants -------------------------- *)
\* the 1.0 (one second) of "interval = 1.0 / rps", in readings of the clock
Second == 2
SAMPLE_WINDOW == 5
MinPriorityFee == 1000000000
GasLimit == 21000
MegaGas == 1000000

Units == 1..MaxUnits
\* block numbers the endpoint may report
BlockNums == {0, 1}
\* timestamps the endpoint may report
TsSet == {100, 112}
\* results of eth_accounts
AccountLists == {<<>>, <<"0xsender">>, <<"0xsender", "0xother">>}

\* the methods of the read generators (lines 233-242)
ReadMethods == {"eth_blockNumber", "eth_getBalance", "eth_call"}

Methods == {"eth_accounts", "eth_maxPriorityFeePerGas", "eth_sendTransaction",
            "eth_getBlockByNumber", "eth_getBlockByHash"} \cup ReadMethods

\* how a call that does not return a result ends (lines 66-74):
\*   transport : the post itself raises (connection error, timeout)
\*   status    : the post returns, raise_for_status raises
\*   decode    : the post returns, r.json() or data["result"] raises
\*   rpcerror  : the post returns a body with an "error" field
Failures == {"transport", "status", "decode", "rpcerror"}
Outcomes == {"result"} \cup Failures

(* ------------------------------ fractions ----------------------------- *)
RECURSIVE GCD(_, _)
GCD(a, b) == IF b = 0 THEN a ELSE GCD(b, a % b)

\* the fraction n/d (n >= 0, d > 0) in lowest terms
Frac(n, d) == LET g == GCD(n, d) IN <<n \div g, d \div g>>

Zero == <<0, 1>>

Max(a, b) == IF a >= b THEN a ELSE b

(* ----------------------------- hex strings ---------------------------- *)
\* A hex string "0x.." is modelled by the sequence of its digits (0..15),
\* most significant first.

RECURSIVE Hex(_)
\* hex(n) for n >= 0: no leading zeros, "0x0" for 0
Hex(n) == IF n < 16 THEN <<n>> ELSE Append(Hex(n \div 16), n % 16)

RECURSIVE Int16(_)
\* int(s, 16) for a string of at least one digit
Int16(s) ==
    IF Len(s) = 1 THEN s[1]
    ELSE Int16(SubSeq(s, 1, Len(s) - 1)) * 16 + s[Len(s)]

\* results of eth_maxPriorityFeePerGas: a hex string (the usual answer) or a
\* JSON number
TipSet ==
    {[isStr |-> TRUE, hex |-> Hex(500000000), num |-> 0],
     [isStr |-> TRUE, hex |-> Hex(1050000000), num |-> 0],
     [isStr |-> FALSE, hex |-> <<>>, num |-> 500000000]}

(* ------------------------------- state -------------------------------- *)
VARIABLES
    mainPc,        \* run(): "start", "accounts", "dispatch", "aborted"
    sender,        \* run(): the sender address ("" until discovered)
    ticks,         \* number of ticks the dispatch loop has consumed
    _id,           \* Rpc._id
    _rpc_counter,  \* Rpc._rpc_counter
    assigned,      \* the request ids handed out, in order of assignment
    RPC_REQ,       \* counter per method
    RPC_LAT,       \* number of latency observations per method
    returned,      \* number of calls per method that have ended
    mainReq,       \* payload of run()'s request in flight
    unitReq,       \* payload of each unit's request in flight
    samplerReq,    \* payload of the sampler's request in flight
    TX_SENT, TX_OK, TX_ERR,
    sem,           \* free slots of the semaphore
    waiters,       \* units blocked in sem.acquire(), in arrival order
    unitPc,        \* per unit: "none","created","waiting","fee","submit","ok","err"
    tip_wei,       \* per unit: send_tx's local tip_wei while it submits (else 0)
    samplerPc,     \* "none","created","prime","sleep","head","parent","dead"
    last_ok, last_err, last_num, last_mgas,   \* sampler locals
    okd, errd,     \* sampler locals of the last window
    blk,           \* sampler local: the head fetched in this window
    parent,        \* sampler local: timestamp of the parent fetched
    ACH_TPS, FAIL_RT, RPS, MGAS_S,            \* gauges
    windows,       \* number of windows sampled
    startOk, startErr,   \* the counters as the sampler found them at startup
    sumOkd, sumErrd,     \* okd and errd summed over all windows so far
    drained,       \* the values drain_rpc_counter returned, summed
    lastDrain,     \* the value drain_rpc_counter returned last
    tickAfterErr,  \* a tick was consumed after some unit had failed
    unitCap,       \* exploration: ticks after which the run is not followed further
    windowCap,     \* exploration: windows after which the run is not followed further
    timeCap,       \* exploration: reading of the clock after which the run is not followed
    total_tps,     \* controller: the total rate handed to compute_mix
    preset,        \* controller: the preset handed to compute_mix
    mix,           \* controller: what compute_mix returned (NoMix before the call)
    now,           \* time.perf_counter(), counted from the start of the dispatch
    rps,           \* per read method: its configured rate RPS_BLOCK, RPS_BAL, RPS_CALL
    genPc,         \* per read method: "none","created","sleep","call" of its rps_loop
    genNext,       \* per read method: rps_loop's next_t
    genStart,      \* per read method: the reading at which its rps_loop started
    TPS,           \* the configured transaction rate
    limPc,         \* rate_limiter: "new" (not yet entered), "running" (in its loop,
                   \* not suspended), "asleep" (in the sleep of line 134)
    limStart,      \* rate_limiter: the reading it took as its first deadline
    limNext,       \* rate_limiter: next_t
    limTicks       \* rate_limiter: the ticks it has yielded

rpcVars == <<_id, _rpc_counter, assigned, RPC_REQ>>
latVars == <<RPC_LAT, returned>>
txVars == <<TX_SENT, TX_OK, TX_ERR>>
gateVars == <<sem, waiters>>
unitVars == <<unitPc, unitReq, tip_wei>>
mainVars == <<mainPc, sender, ticks, tickAfterErr, mainReq>>
samplerLocals == <<last_ok, last_err, last_num, last_mgas, okd, errd, blk, parent>>
gauges == <<ACH_TPS, FAIL_RT, RPS, MGAS_S>>
history == <<windows, startOk, startErr, sumOkd, sumErrd, drained, lastDrain>>
samplerVars == <<samplerPc, samplerReq, samplerLocals, gauges, history>>

caps == <<unitCap, windowCap, timeCap>>
mixVars == <<total_tps, preset, mix>>

genVars == <<genPc, genNext, genStart>>
readVars == <<now, rps, genVars>>
paceVars == <<TPS, limPc, limStart, limNext, limTicks>>

\* what the steps of the startup, the units and the sampler leave alone
aside == <<caps, mixVars, readVars, paceVars>>

vars == <<mainVars, rpcVars, latVars, txVars, gateVars, unitVars, samplerVars, aside>>

(* ------------------------------ payloads ------------------------------ *)
NoTx == [from |-> "", gas |-> <<>>, maxPriorityFeePerGas |-> <<>>, maxFeePerGas |-> <<>>]

\* no request in flight
NoReq == [method |-> "", tag |-> "", hash |-> "", tx |-> NoTx]

\* line 61: payload = {"jsonrpc": "2.0", "method": method, "params": params, "id": rid}
\* (the params are filled in by the caller; the id is recorded in assigned)
Payload(method) == [NoReq EXCEPT !.method = method]

NoBlock == [number |-> 0, timestamp |-> 0, gasUsed |-> 0, parentHash |-> ""]

\* the heads the endpoint may report: for every number, one block stamped
\* 112 with 15,000,000 gas used and one stamped 100 with 30,000,000
Blocks ==
    {[number |-> n, timestamp |-> 112, gasUsed |-> 15000000, parentHash |-> "0xaa"] :
        n \in BlockNums}
    \cup
    {[number |-> n, timestamp |-> 100, gasUsed |-> 30000000, parentHash |-> "0xbb"] :
        n \in BlockNums}


(* ------------------------------ Rpc.call ------------------------------ *)
\* the id is read back before the increment: a stale id
AssignIdStale(i) == <<i + 1, i>>

\* lines 58-60, under self._lock: self._id += 1; rid = self._id.
\* <<the new self._id, rid>>
AssignId(i) == <<i + 1, i + 1>>

\* lines 57-66, up to the post: a task that calls Rpc.call runs without
\* suspending until the post (the lock is free whenever a task reaches it,
\* since no task suspends while holding it).  counterBefore is
\* self._rpc_counter as this call finds it.
CallBegin(method, counterBefore) ==
    /\ _id' = AssignId(_id)[1]
    /\ assigned' = Append(assigned, AssignId(_id)[2])
    /\ RPC_REQ' = [RPC_REQ EXCEPT ![method] = @ + 1]
    /\ _rpc_counter' = counterBefore + 1

\* lines 65-78: the latency observations of one call.  A call whose post
\* returned has observed at line 68; every exception observes at line 77.
Observations(outcome) ==
    CASE outcome = "result" -> 1
      [] outcome = "transport" -> 1
      [] OTHER -> 2

\* lines 66-78: the call ends, by a result or by an exception
CallEnd(method, outcome) ==
    /\ RPC_LAT' = [RPC_LAT EXCEPT ![method] = @ + Observations(outcome)]
    /\ returned' = [returned EXCEPT ![method] = @ + 1]

\* the counter is read and left as it is
DrainKeep(c) == <<c, c>>

\* lines 80-83, drain_rpc_counter: <<the value returned, the new counter>>
Drain(c) == <<c, 0>>

(* ------------------------------- Init --------------------------------- *)
\* the state when run() is entered; uc and wc fix how far a run is followed
InitWith(uc, wc) ==
    /\ unitCap = uc
    /\ windowCap = wc
    /\ mainPc = "start"
    /\ sender = ""
    /\ ticks = 0
    /\ _id = 0
    /\ _rpc_counter = 0
    /\ assigned = <<>>
    /\ RPC_REQ = [m \in Methods |-> 0]
    /\ RPC_LAT = [m \in Methods |-> 0]
    /\ returned = [m \in Methods |-> 0]
    /\ mainReq = NoReq
    /\ unitReq = [u \in Units |-> NoReq]
    /\ tip_wei = [u \in Units |-> 0]
    /\ samplerReq = NoReq
    /\ TX_SENT = 0
    /\ TX_OK = 0
    /\ TX_ERR = 0
    /\ sem = CONCURRENCY
    /\ waiters = <<>>
    /\ unitPc = [u \in Units |-> "none"]
    /\ samplerPc = "none"
    /\ last_ok = 0
    /\ last_err = 0
    /\ last_num = 0
    /\ last_mgas = Zero
    /\ okd = 0
    /\ errd = 0
    /\ blk = NoBlock
    /\ parent = 0
    /\ ACH_TPS = Zero
    /\ FAIL_RT = Zero
    /\ RPS = Zero
    /\ MGAS_S = Zero
    /\ windows = 0
    /\ startOk = 0
    /\ startErr = 0
    /\ sumOkd = 0
    /\ sumErrd = 0
    /\ drained = 0
    /\ lastDrain = 0
    /\ tickAfterErr = FALSE

(* --------------------- controller: compute_mix ------------------------ *)
\* totals handed to compute_mix
MaxTotal == 60
Totals == (0 - 3)..MaxTotal
Presets == {"write", "even"}

NoMix == [tps |-> 0 - 1, rps_block |-> 0 - 1, rps_bal |-> 0 - 1, rps_call |-> 0 - 1]

\* round(n / d) for n >= 0, d > 0: Python rounds to the nearest integer and
\* a tie to the even one
Round(n, d) ==
    LET f == n \div d
        r == n % d
    IN IF 2 * r < d THEN f
       ELSE IF 2 * r > d THEN f + 1
       ELSE IF f % 2 = 0 THEN f ELSE f + 1

\* src/controller/main.py lines 98-106.  0.35 * t and 0.10 * t are products
\* of doubles; for the totals up to 89 their rounding is that of the exact
\* products 35 t / 100 and 10 t / 100.
compute_mix(total, p) ==
    LET t == Max(total, 0)
    IN IF p = "even"
       THEN LET per == Round(t, 5)
            IN [tps |-> per, rps_block |-> per, rps_bal |-> per, rps_call |-> per]
       ELSE LET send == Round(35 * t, 100)
                read == Round(10 * t, 100)
            IN [tps |-> send, rps_block |-> read, rps_bal |-> read, rps_call |-> read]

\* the controller idle: no split computed
MixIdle == total_tps = 0 /\ preset = "write" /\ mix = NoMix

\* the clock and the read loops as constructed
ReadInit ==
    /\ now = 0
    /\ genPc = [m \in ReadMethods |-> "none"]
    /\ genNext = [m \in ReadMethods |-> 0]
    /\ genStart = [m \in ReadMethods |-> 0]

\* lines 17-19: RPS_BLOCK, RPS_BAL and RPS_CALL default to 0: no read traffic
ReadOff == ReadInit /\ rps = [m \in ReadMethods |-> 0]

\* the pacer as constructed
PaceInit ==
    /\ limPc = "new"
    /\ limStart = 0
    /\ limNext = 0
    /\ limTicks = 0

\* the clock and the pacer's deadlines are not followed: a sleep ends at
\* some later step (Tick)
Untimed == timeCap = 0 /\ TPS = 1 /\ PaceInit

\* src/controller/main.py line 141: mix = compute_mix(total_tps, preset)
ComputeMix ==
    /\ mix = NoMix
    /\ mix' = compute_mix(total_tps, preset)
    /\ UNCHANGED <<total_tps, preset, caps, readVars, paceVars, mainVars, rpcVars, latVars,
                   txVars, gateVars, unitVars, samplerVars>>

(* ------------------------- run(): startup ----------------------------- *)
\* lines 203-205 and 89-90: run() creates the transport and calls eth_accounts
Start ==
    /\ mainPc = "start"
    /\ CallBegin("eth_accounts", _rpc_counter)
    /\ mainReq' = Payload("eth_accounts")
    /\ mainPc' = "accounts"
    /\ UNCHANGED <<sender, ticks, tickAfterErr, latVars, txVars, gateVars, unitVars, samplerVars, aside>>

\* a read loop is created for every method, whatever its rate
CreateAllReadLoops == [m \in ReadMethods |-> "created"]

\* lines 233-242: a read loop is created for every method whose rate is
\* positive
CreateReadLoops == [m \in ReadMethods |-> IF rps[m] > 0 THEN "created" ELSE "none"]

\* the list is not checked: an empty one starts the traffic without a sender
AccountsReturnUnchecked(accs) ==
    /\ mainPc = "accounts"
    /\ CallEnd("eth_accounts", "result")
    /\ mainReq' = NoReq
    /\ sender' = IF accs = <<>> THEN "" ELSE accs[1]
    /\ samplerPc' = "created"
    /\ genPc' = CreateReadLoops
    /\ mainPc' = "dispatch"
    /\ UNCHANGED <<ticks, tickAfterErr, rpcVars, txVars, gateVars, unitVars, samplerReq,
                   samplerLocals, gauges, history, caps, mixVars, paceVars, now, rps,
                   genNext, genStart>>

\* lines 90-96 and 207-246: eth_accounts returned accs.  An empty list raises
\* out of run(); otherwise the sampler task and the read loops are created
\* and the dispatch loop is entered.
AccountsReturn(accs) ==
    /\ mainPc = "accounts"
    /\ CallEnd("eth_accounts", "result")
    /\ mainReq' = NoReq
    /\ IF accs = <<>>
       THEN /\ mainPc' = "aborted"
            /\ UNCHANGED <<sender, samplerPc, genPc>>
       ELSE /\ sender' = accs[1]
            /\ samplerPc' = "created"
            /\ genPc' = CreateReadLoops
            /\ mainPc' = "dispatch"
    /\ UNCHANGED <<ticks, tickAfterErr, rpcVars, txVars, gateVars, unitVars, samplerReq,
                   samplerLocals, gauges, history, caps, mixVars, paceVars, now, rps,
                   genNext, genStart>>

\* lines 90 and 248-250: eth_accounts failed; the exception leaves run()
AccountsFail(f) ==
    /\ mainPc = "accounts"
    /\ CallEnd("eth_accounts", f)
    /\ mainReq' = NoReq
    /\ mainPc' = "aborted"
    /\ UNCHANGED <<sender, ticks, tickAfterErr, rpcVars, txVars, gateVars, unitVars, samplerVars, aside>>


(* ------------------------ the transaction path ------------------------ *)
\* the dispatch loop takes a slot of the gate itself before it creates the
\* task: a full gate holds the loop
TickBehindGate ==
    /\ mainPc = "dispatch"
    /\ ticks < unitCap
    /\ sem > 0
    /\ ticks' = ticks + 1
    /\ tickAfterErr' = (tickAfterErr \/ TX_ERR > 0)
    /\ unitPc' = [unitPc EXCEPT ![ticks + 1] = "created"]
    /\ UNCHANGED <<mainPc, sender, mainReq, rpcVars, latVars, txVars, gateVars,
                   unitReq, tip_wei, samplerVars, aside>>

\* lines 244-246 and 128-136: the pacer yields a tick and the dispatch loop
\* creates the task of one unit of work; the loop itself goes back to the
\* pacer without awaiting the task
Tick ==
    /\ mainPc = "dispatch"
    /\ ticks < unitCap
    /\ ticks' = ticks + 1
    /\ tickAfterErr' = (tickAfterErr \/ TX_ERR > 0)
    /\ unitPc' = [unitPc EXCEPT ![ticks + 1] = "created"]
    /\ UNCHANGED <<mainPc, sender, mainReq, rpcVars, latVars, txVars, gateVars,
                   unitReq, tip_wei, samplerVars, aside>>

\* lines 99-103: send_tx counts the attempt, then calls the fee estimation
SendTxBegin(u) ==
    /\ TX_SENT' = TX_SENT + 1
    /\ CallBegin("eth_maxPriorityFeePerGas", _rpc_counter)
    /\ unitReq' = [unitReq EXCEPT ![u] = Payload("eth_maxPriorityFeePerGas")]
    /\ unitPc' = [unitPc EXCEPT ![u] = "fee"]
    /\ UNCHANGED <<TX_OK, TX_ERR, tip_wei>>

\* lines 222-225: the task of a unit starts and finds a free slot (and nobody
\* queued before it): it takes the slot and enters send_tx
UnitEnter(u) ==
    /\ unitPc[u] = "created"
    /\ sem > 0
    /\ waiters = <<>>
    /\ sem' = sem - 1
    /\ SendTxBegin(u)
    /\ UNCHANGED <<waiters, mainVars, latVars, samplerVars, aside>>

\* line 223: the task of a unit starts and finds the gate full: it queues
UnitBlock(u) ==
    /\ unitPc[u] = "created"
    /\ ~(sem > 0 /\ waiters = <<>>)
    /\ waiters' = Append(waiters, u)
    /\ unitPc' = [unitPc EXCEPT ![u] = "waiting"]
    /\ UNCHANGED <<sem, unitReq, tip_wei, mainVars, rpcVars, latVars, txVars, samplerVars, aside>>

\* lines 223-225: the longest-waiting unit gets a released slot and enters
\* send_tx
UnitWake(u) ==
    /\ unitPc[u] = "waiting"
    /\ waiters # <<>>
    /\ Head(waiters) = u
    /\ sem > 0
    /\ sem' = sem - 1
    /\ waiters' = Tail(waiters)
    /\ SendTxBegin(u)
    /\ UNCHANGED <<mainVars, latVars, samplerVars, aside>>

\* line 104: tip_wei = int(tip, 16) if isinstance(tip, str) else int(tip)
TipWei(tip) == IF tip.isStr THEN Int16(tip.hex) ELSE tip.num

\* the estimate is used as it comes
PriorityNoFloor(tip) == tip

\* line 105: priority = max(tip_wei, 1_000_000_000)
Priority(tip) == Max(tip, MinPriorityFee)

\* line 106: maxfee = priority * 2
MaxFee(priority) == priority * 2

\* lines 108-119: the transaction of eth_sendTransaction
TxParams(from, tip) ==
    [from |-> from, gas |-> Hex(GasLimit),
     maxPriorityFeePerGas |-> Hex(Priority(tip)),
     maxFeePerGas |-> Hex(MaxFee(Priority(tip)))]

\* lines 103-120: the fee estimation returned tip; send_tx builds the
\* transaction and calls eth_sendTransaction
FeeReturn(u, tip) ==
    /\ unitPc[u] = "fee"
    /\ CallEnd("eth_maxPriorityFeePerGas", "result")
    /\ CallBegin("eth_sendTransaction", _rpc_counter)
    /\ unitReq' = [unitReq EXCEPT ![u] =
           [Payload("eth_sendTransaction") EXCEPT !.tx = TxParams(sender, TipWei(tip))]]
    /\ tip_wei' = [tip_wei EXCEPT ![u] = TipWei(tip)]
    /\ unitPc' = [unitPc EXCEPT ![u] = "submit"]
    /\ UNCHANGED <<mainVars, txVars, gateVars, samplerVars, aside>>

\* a unit that succeeded keeps its slot
SubmitReturnKeepsSlot(u) ==
    /\ unitPc[u] = "submit"
    /\ CallEnd("eth_sendTransaction", "result")
    /\ TX_OK' = TX_OK + 1
    /\ unitPc' = [unitPc EXCEPT ![u] = "ok"]
    /\ unitReq' = [unitReq EXCEPT ![u] = NoReq]
    /\ tip_wei' = [tip_wei EXCEPT ![u] = 0]
    /\ UNCHANGED <<TX_SENT, TX_ERR, sem, waiters, mainVars, rpcVars, samplerVars, aside>>

\* lines 120-121 and 223: eth_sendTransaction returned; the unit counts the
\* success and leaves the gate
SubmitReturn(u) ==
    /\ unitPc[u] = "submit"
    /\ CallEnd("eth_sendTransaction", "result")
    /\ TX_OK' = TX_OK + 1
    /\ sem' = sem + 1
    /\ unitPc' = [unitPc EXCEPT ![u] = "ok"]
    /\ unitReq' = [unitReq EXCEPT ![u] = NoReq]
    /\ tip_wei' = [tip_wei EXCEPT ![u] = 0]
    /\ UNCHANGED <<TX_SENT, TX_ERR, waiters, mainVars, rpcVars, samplerVars, aside>>

\* lines 122-125 and 223-227: an exception inside send_tx, raised by the call
\* in flight (outcome f) or by send_tx's own code after the call returned
\* (outcome "result": int(tip, 16) on a malformed fee).  send_tx counts the
\* error and re-raises; one() catches it, and leaving the async with gives
\* the slot back.  semAfter, errAfter and mainAfter are the semaphore, TX_ERR
\* and run()'s position after the step.
UnitRaise(u, f, semAfter, errAfter, mainAfter) ==
    /\ unitPc[u] \in {"fee", "submit"}
    /\ CallEnd(unitReq[u].method, f)
    /\ TX_ERR' = errAfter
    /\ sem' = semAfter
    /\ mainPc' = mainAfter
    /\ unitPc' = [unitPc EXCEPT ![u] = "err"]
    /\ unitReq' = [unitReq EXCEPT ![u] = NoReq]
    /\ tip_wei' = [tip_wei EXCEPT ![u] = 0]
    /\ UNCHANGED <<TX_SENT, TX_OK, waiters, sender, ticks, tickAfterErr, mainReq,
                   rpcVars, samplerVars, aside>>

\* the slot is not given back when the submission fails
UnitFailLeak(u, f) == UnitRaise(u, f, sem, TX_ERR + 1, mainPc)

\* only a failed submit is counted as an error, not a failed fee fetch
UnitFailFeeUncounted(u, f) ==
    UnitRaise(u, f, sem + 1, IF unitPc[u] = "submit" THEN TX_ERR + 1 ELSE TX_ERR, mainPc)

\* the unit's failure is not caught in one() and reaches the dispatch loop
UnitFailPropagates(u, f) == UnitRaise(u, f, sem + 1, TX_ERR + 1, "crashed")

\* lines 122-125 and 223-227: the call in flight of unit u fails with f
UnitFail(u, f) == UnitRaise(u, f, sem + 1, TX_ERR + 1, mainPc)

\* lines 103-104 and 122-125: the fee estimation returned something that
\* int() rejects; the exception is counted like a failed call
FeeMalformed(u) ==
    /\ unitPc[u] = "fee"
    /\ UnitRaise(u, "result", sem + 1, TX_ERR + 1, mainPc)


(* ----------------------------- the sampler ---------------------------- *)
\* line 157: okd / window if window > 0 else 0.0
AchievedTps(d, window) == IF window > 0 THEN Frac(d, window) ELSE Zero

\* the errors are set against the successes, not against all attempts
FailureRateOverOk(o, e) == IF o > 0 THEN Frac(e, o) ELSE Zero

\* lines 156-158: total = okd + errd; (errd / total) if total > 0 else 0.0
FailureRate(o, e) == IF o + e > 0 THEN Frac(e, o + e) ELSE Zero

\* line 162: rpc.drain_rpc_counter() / window
RpsGauge(v, window) == Frac(v, window)

\* the elapsed time is taken with its operands swapped
MGasSwapped(gas, ts, pts) == Frac(gas, Max(pts - ts, 1) * MegaGas)

\* lines 171-175: dt = max(ts - pts, 1); (gas / dt) / 1_000_000
MGasPerS(gas, ts, pts) == Frac(gas, Max(ts - pts, 1) * MegaGas)

\* lines 140-144: the sampler task starts: it snapshots the counters and
\* fetches the head to prime last_num
SamplerStart ==
    /\ samplerPc = "created"
    /\ last_ok' = TX_OK
    /\ last_err' = TX_ERR
    /\ startOk' = TX_OK
    /\ startErr' = TX_ERR
    /\ CallBegin("eth_getBlockByNumber", _rpc_counter)
    /\ samplerReq' = [Payload("eth_getBlockByNumber") EXCEPT !.tag = "latest"]
    /\ samplerPc' = "prime"
    /\ UNCHANGED <<last_num, last_mgas, okd, errd, blk, parent, gauges, windows,
                   sumOkd, sumErrd, drained, lastDrain, mainVars, latVars, txVars, gateVars, unitVars, aside>>

\* lines 144-149: the priming fetch returned a head with number n
PrimeReturn(n) ==
    /\ samplerPc = "prime"
    /\ CallEnd("eth_getBlockByNumber", "result")
    /\ last_num' = n
    /\ last_mgas' = Zero
    /\ samplerReq' = NoReq
    /\ samplerPc' = "sleep"
    /\ UNCHANGED <<last_ok, last_err, okd, errd, blk, parent, gauges, history,
                   mainVars, rpcVars, txVars, gateVars, unitVars, aside>>

\* lines 149-165: the sleep of one window is over.  The sampler diffs the
\* counters against its snapshot, publishes achieved TPS and failure rate,
\* moves the snapshot, drains the call counter into the RPS gauge and fetches
\* the head.  snapOk and snapErr are the snapshot it keeps for the next window.
Sample(snapOk, snapErr) ==
    /\ samplerPc = "sleep"
    /\ windows < windowCap
    /\ okd' = TX_OK - last_ok
    /\ errd' = TX_ERR - last_err
    /\ ACH_TPS' = AchievedTps(okd', SAMPLE_WINDOW)
    /\ FAIL_RT' = FailureRate(okd', errd')
    /\ last_ok' = snapOk
    /\ last_err' = snapErr
    /\ RPS' = RpsGauge(Drain(_rpc_counter)[1], SAMPLE_WINDOW)
    /\ CallBegin("eth_getBlockByNumber", Drain(_rpc_counter)[2])
    /\ samplerReq' = [Payload("eth_getBlockByNumber") EXCEPT !.tag = "latest"]
    /\ samplerPc' = "head"
    /\ windows' = windows + 1
    /\ sumOkd' = sumOkd + okd'
    /\ sumErrd' = sumErrd + errd'
    /\ lastDrain' = Drain(_rpc_counter)[1]
    /\ drained' = drained + lastDrain'
    /\ UNCHANGED <<last_num, last_mgas, blk, parent, MGAS_S, startOk, startErr,
                   mainVars, latVars, txVars, gateVars, unitVars, aside>>

\* the snapshot is not moved: every window diffs against the first one
WindowStaleSnapshot == Sample(last_ok, last_err)

\* lines 149-165: one window; line 159: last_ok, last_err = ok, err
Window == Sample(TX_OK, TX_ERR)

\* the head b is no newer than the recorded one; published is what the
\* MegaGas/second gauge is set to
HeadQuiet(b, published) ==
    /\ samplerPc = "head"
    /\ ~(b.number > last_num)
    /\ CallEnd("eth_getBlockByNumber", "result")
    /\ blk' = b
    /\ MGAS_S' = published
    /\ samplerReq' = NoReq
    /\ samplerPc' = "sleep"
    /\ UNCHANGED <<last_ok, last_err, last_num, last_mgas, okd, errd, parent,
                   ACH_TPS, FAIL_RT, RPS, history,
                   mainVars, rpcVars, txVars, gateVars, unitVars, aside>>

\* a quiet window resets the gauge
HeadSameReset(b) == HeadQuiet(b, Zero)

\* lines 165-168 and 178-180: the head returned is not newer than the
\* recorded one: MGAS_S.set(last_mgas)
HeadSame(b) == HeadQuiet(b, last_mgas)

\* lines 165-170: the head returned is newer than the recorded one: the
\* sampler fetches its parent by blk["parentHash"]
HeadNew(b) ==
    /\ samplerPc = "head"
    /\ b.number > last_num
    /\ CallEnd("eth_getBlockByNumber", "result")
    /\ blk' = b
    /\ CallBegin("eth_getBlockByHash", _rpc_counter)
    /\ samplerReq' = [Payload("eth_getBlockByHash") EXCEPT !.hash = b.parentHash]
    /\ samplerPc' = "parent"
    /\ UNCHANGED <<last_ok, last_err, last_num, last_mgas, okd, errd, parent,
                   gauges, history, mainVars, txVars, gateVars, unitVars, aside>>

\* lines 170-177: the parent returned, with timestamp pts
ParentReturn(pts) ==
    /\ samplerPc = "parent"
    /\ CallEnd("eth_getBlockByHash", "result")
    /\ parent' = pts
    /\ last_mgas' = MGasPerS(blk.gasUsed, blk.timestamp, pts)
    /\ MGAS_S' = last_mgas'
    /\ last_num' = blk.number
    /\ samplerReq' = NoReq
    /\ samplerPc' = "sleep"
    /\ UNCHANGED <<last_ok, last_err, okd, errd, blk, ACH_TPS, FAIL_RT, RPS,
                   history, mainVars, rpcVars, txVars, gateVars, unitVars, aside>>

\* lines 144, 165, 170: a call of the sampler fails with f; nothing in the
\* sampler catches it, and the task ends
SamplerFail(f) ==
    /\ samplerPc \in {"prime", "head", "parent"}
    /\ CallEnd(samplerReq.method, f)
    /\ samplerReq' = NoReq
    /\ samplerPc' = "dead"
    /\ UNCHANGED <<samplerLocals, gauges, history,
                   mainVars, rpcVars, txVars, gateVars, unitVars, aside>>

(* --------------------------- specification ---------------------------- *)
(* -------------------------- the read generators ----------------------- *)
\* rates a read method may be configured with
RateSet == {0 - 1, 0, 1, 2}

\* line 187: interval = 1.0 / rps (rps > 0 here)
Interval(rate) == Second \div rate

\* a rate <= 0 is paced like one tick a second
PaceIntervalNeverZero(tps) == IF tps > 0 THEN Second \div tps ELSE Second

\* line 129: interval = 1.0 / tps if tps > 0 else 0.0
PaceInterval(tps) == IF tps > 0 THEN Second \div tps ELSE 0

\* the deadline is counted from the moment the tick fired
NextDeadlineFromNow(next_t, interval) == now + interval

\* lines 132-134: back at the top of its loop with the deadline next_t,
\* rate_limiter sleeps if the deadline lies ahead; if not it goes on to
\* yield, and the task that asked for the tick has not been suspended
AfterYield(next_t) == IF now < next_t THEN "asleep" ELSE "running"

\* line 198 (and 136): next_t += interval
NextDeadline(next_t, interval) == next_t + interval

\* the clock moves on.  Readings are counted from the moment run() enters
\* the dispatch loop; a task that is ready need not run at once.
Advance ==
    /\ mainPc = "dispatch"
    /\ now < timeCap
    /\ now' = now + 1
    /\ UNCHANGED <<rps, genVars, caps, mixVars, paceVars, mainVars, rpcVars, latVars, txVars,
                   gateVars, unitVars, samplerVars>>

\* lines 185-194: the task of rps_loop starts.  With a rate <= 0 it returns;
\* otherwise it takes the clock as its first deadline and, nothing to wait
\* for, issues its first call.
GenStart(m) ==
    /\ genPc[m] = "created"
    /\ IF rps[m] <= 0
       THEN /\ genPc' = [genPc EXCEPT ![m] = "none"]
            /\ UNCHANGED <<genNext, genStart, rpcVars>>
       ELSE /\ genStart' = [genStart EXCEPT ![m] = now]
            /\ genNext' = [genNext EXCEPT ![m] = now]
            /\ CallBegin(m, _rpc_counter)
            /\ genPc' = [genPc EXCEPT ![m] = "call"]
    /\ UNCHANGED <<now, rps, caps, mixVars, paceVars, mainVars, latVars, txVars, gateVars,
                   unitVars, samplerVars>>

\* lines 190-194: the sleep up to next_t is over; the loop issues its call
GenWake(m) ==
    /\ genPc[m] = "sleep"
    /\ now >= genNext[m]
    /\ CallBegin(m, _rpc_counter)
    /\ genPc' = [genPc EXCEPT ![m] = "call"]
    /\ UNCHANGED <<now, rps, genNext, genStart, caps, mixVars, paceVars, mainVars, latVars,
                   txVars, gateVars, unitVars, samplerVars>>

\* lines 189-198: the call in flight ends with outcome (an exception is
\* swallowed at lines 195-197); the deadline becomes nextAfter and the loop
\* goes round: it sleeps if the deadline lies ahead (asleep), and issues the
\* next call at once if not
GenCallEnd(m, outcome, nextAfter, asleep) ==
    /\ genPc[m] = "call"
    /\ CallEnd(m, outcome)
    /\ genNext' = [genNext EXCEPT ![m] = nextAfter]
    /\ IF asleep
       THEN /\ genPc' = [genPc EXCEPT ![m] = "sleep"]
            /\ UNCHANGED rpcVars
       ELSE /\ CallBegin(m, _rpc_counter)
            /\ UNCHANGED genPc
    /\ UNCHANGED <<now, rps, genStart, caps, mixVars, paceVars, mainVars, txVars, gateVars,
                   unitVars, samplerVars>>

\* the loop sleeps after every call, due or not
GenReturnSleeps(m) ==
    GenCallEnd(m, "result", NextDeadline(genNext[m], Interval(rps[m])), TRUE)

\* lines 194 and 198: the call returned
GenReturn(m) ==
    LET next_t == NextDeadline(genNext[m], Interval(rps[m]))
    IN GenCallEnd(m, "result", next_t, now < next_t)

\* a failed call leaves the deadline where it was
GenFailKeepsDeadline(m, f) == GenCallEnd(m, f, genNext[m], now < genNext[m])

\* lines 195-198: the call failed with f
GenFail(m, f) ==
    LET next_t == NextDeadline(genNext[m], Interval(rps[m]))
    IN GenCallEnd(m, f, next_t, now < next_t)

(* ------------------------------ the pacer ----------------------------- *)
\* transaction rates the pacer is followed with
PaceRates == {1, 2}

\* lines 129-136, the first request for a tick: rate_limiter takes the clock
\* as its first deadline, has nothing to wait for and yields; resumed, it
\* advances the deadline
PacerFirst ==
    /\ mainPc = "dispatch"
    /\ limPc = "new"
    /\ limStart' = now
    /\ limNext' = NextDeadline(now, PaceInterval(TPS))
    /\ limPc' = AfterYield(limNext')
    /\ limTicks' = 1
    /\ UNCHANGED <<TPS, caps, mixVars, readVars, mainVars, rpcVars, latVars, txVars,
                   gateVars, unitVars, samplerVars>>

\* lines 131-136, a later request: the deadline has come (after the sleep of
\* line 134, or passed already); rate_limiter yields and, resumed, advances
\* the deadline
PacerTick ==
    /\ limPc \in {"running", "asleep"}
    /\ now >= limNext
    /\ limNext' = NextDeadline(limNext, PaceInterval(TPS))
    /\ limPc' = AfterYield(limNext')
    /\ limTicks' = limTicks + 1
    /\ UNCHANGED <<TPS, limStart, caps, mixVars, readVars, mainVars, rpcVars,
                   latVars, txVars, gateVars, unitVars, samplerVars>>

(* ------------------- the dispatch loop on the clock ------------------- *)
\* lines 244-246 with 128-136: the dispatch loop asks the pacer for a tick
\* and gets it (at once on the first request, and whenever the deadline has
\* come), creates the task of one unit and asks again: back at the top of
\* its loop the pacer sleeps or not (AfterYield).  Between the request, the
\* yield, create_task and the next request nothing suspends run().
DispatchTick ==
    /\ mainPc = "dispatch"
    /\ ticks < unitCap
    /\ IF limPc = "new"
       THEN /\ limStart' = now
            /\ limNext' = NextDeadline(now, PaceInterval(TPS))
            /\ limTicks' = 1
       ELSE /\ now >= limNext
            /\ limNext' = NextDeadline(limNext, PaceInterval(TPS))
            /\ limTicks' = limTicks + 1
            /\ UNCHANGED limStart
    /\ limPc' = AfterYield(limNext')
    /\ ticks' = ticks + 1
    /\ tickAfterErr' = (tickAfterErr \/ TX_ERR > 0)
    /\ unitPc' = [unitPc EXCEPT ![ticks + 1] = "created"]
    /\ UNCHANGED <<TPS, mainPc, sender, mainReq, rpcVars, latVars, txVars, gateVars,
                   unitReq, tip_wei, samplerVars, caps, mixVars, readVars>>

(* ------------------------------ the whole ----------------------------- *)
Next ==
    \/ Start
    \/ \E accs \in AccountLists : AccountsReturn(accs)
    \/ \E f \in Failures : AccountsFail(f)
    \/ Tick
    \/ \E u \in Units : UnitEnter(u)
    \/ \E u \in Units : UnitBlock(u)
    \/ \E u \in Units : UnitWake(u)
    \/ \E u \in Units, tip \in TipSet : FeeReturn(u, tip)
    \/ \E u \in Units : FeeMalformed(u)
    \/ \E u \in Units : SubmitReturn(u)
    \/ \E u \in Units, f \in Failures : UnitFail(u, f)
    \/ SamplerStart
    \/ \E n \in BlockNums : PrimeReturn(n)
    \/ Window
    \/ \E b \in Blocks : HeadSame(b)
    \/ \E b \in Blocks : HeadNew(b)
    \/ \E pts \in TsSet : ParentReturn(pts)
    \/ \E f \in Failures : SamplerFail(f)

\* the program followed for MaxUnits ticks and one sampling window
Init == InitWith(MaxUnits, 1) /\ MixIdle /\ ReadOff /\ Untimed

Spec == Init /\ [][Next]_vars

\* the program followed for two ticks and MaxWindows sampling windows
InitSampler == InitWith(2, MaxWindows) /\ MixIdle /\ ReadOff /\ Untimed

SpecSampler == InitSampler /\ [][Next]_vars

\* the task of unit u takes its next step when it can: the event loop runs a
\* task that is ready (created, or woken by a released slot)
UnitScheduled(u) == UnitEnter(u) \/ UnitBlock(u) \/ UnitWake(u)

\* the call in flight of unit u ends: the endpoint answers, or the client's
\* timeout (line 52) fails the call
UnitCallEnds(u) ==
    \/ \E tip \in TipSet : FeeReturn(u, tip)
    \/ FeeMalformed(u)
    \/ SubmitReturn(u)
    \/ \E f \in Failures : UnitFail(u, f)

\* the event loop is fair to every ready task and every call ends; nothing
\* is assumed of the pacer
Fairness ==
    \A u \in Units : WF_vars(UnitScheduled(u)) /\ WF_vars(UnitCallEnds(u))

\* the startup and the transaction path.  The sampler is created but its
\* steps are left out: they change neither the gate nor any unit, and no
\* step of a unit depends on what they change.
NextLive ==
    \/ Start
    \/ \E accs \in AccountLists : AccountsReturn(accs)
    \/ \E f \in Failures : AccountsFail(f)
    \/ Tick
    \/ \E u \in Units : UnitScheduled(u)
    \/ \E u \in Units : UnitCallEnds(u)

SpecLive == Init /\ [][NextLive]_vars /\ Fairness

\* the startup and the read loops under every configuration of their rates,
\* on the clock; the sampler and the pacer are created but not followed
InitRead ==
    /\ InitWith(0, 0)
    /\ MixIdle
    /\ ReadInit
    /\ rps \in [ReadMethods -> RateSet]
    /\ timeCap = MaxTime
    /\ TPS = 1
    /\ PaceInit

NextRead ==
    \/ Start
    \/ \E accs \in AccountLists : AccountsReturn(accs)
    \/ \E f \in Failures : AccountsFail(f)
    \/ Advance
    \/ \E m \in ReadMethods : GenStart(m)
    \/ \E m \in ReadMethods : GenWake(m)
    \/ \E m \in ReadMethods : GenReturn(m)
    \/ \E m \in ReadMethods, f \in Failures : GenFail(m, f)

SpecRead == InitRead /\ [][NextRead]_vars

\* the startup and the pacer under every rate, on the clock; the tasks the
\* dispatch loop creates are not followed
InitPace ==
    /\ InitWith(0, 0)
    /\ MixIdle
    /\ ReadOff
    /\ timeCap = MaxPaceTime
    /\ TPS \in PaceRates
    /\ PaceInit

NextPace ==
    \/ Start
    \/ \E accs \in AccountLists : AccountsReturn(accs)
    \/ \E f \in Failures : AccountsFail(f)
    \/ Advance
    \/ PacerFirst
    \/ PacerTick

SpecPace == InitPace /\ [][NextPace]_vars

\* the whole load generator: the startup, two units of work, the sampler over
\* one window and the read loops, either none of them or that of
\* eth_blockNumber, on a short clock
InitAll ==
    /\ InitWith(2, 1)
    /\ MixIdle
    /\ ReadInit
    /\ rps \in {[m \in ReadMethods |-> 0],
                [m \in ReadMethods |-> IF m = "eth_blockNumber" THEN Second ELSE 0]}
    /\ timeCap = 1
    /\ TPS = 1
    /\ PaceInit

NextAll ==
    \/ Next
    \/ Advance
    \/ \E m \in ReadMethods : GenStart(m)
    \/ \E m \in ReadMethods : GenWake(m)
    \/ \E m \in ReadMethods : GenReturn(m)
    \/ \E m \in ReadMethods, f \in Failures : GenFail(m, f)

SpecAll == InitAll /\ [][NextAll]_vars

\* run() is suspended in the pacer's sleep (line 134): the one place where
\* the dispatch loop gives the event loop to the other tasks
Suspended == limPc = "asleep"

\* a step of a unit of work
UnitStep(u) == UnitScheduled(u) \/ UnitCallEnds(u)

\* a step of the sampler
SamplerStep ==
    \/ SamplerStart
    \/ \E n \in BlockNums : PrimeReturn(n)
    \/ Window
    \/ \E b \in Blocks : HeadSame(b)
    \/ \E b \in Blocks : HeadNew(b)
    \/ \E pts \in TsSet : ParentReturn(pts)
    \/ \E f \in Failures : SamplerFail(f)

\* a step of the read loop of m
GenStep(m) ==
    \/ GenStart(m)
    \/ GenWake(m)
    \/ GenReturn(m)
    \/ \E f \in Failures : GenFail(m, f)

\* transaction rates the dispatch loop is followed with on the clock
DispatchRates == {0 - 1, 0, Second}

\* the whole load generator on one event loop and on a short clock, with
\* the read loop of eth_blockNumber configured: a task other than run()
\* takes a step only while run() is suspended
InitLoop ==
    /\ InitWith(MaxUnits, 1)
    /\ MixIdle
    /\ ReadInit
    /\ rps = [m \in ReadMethods |-> IF m = "eth_blockNumber" THEN Second ELSE 0]
    /\ timeCap = 1
    /\ TPS \in DispatchRates
    /\ PaceInit

NextLoop ==
    \/ Start
    \/ \E accs \in AccountLists : AccountsReturn(accs)
    \/ \E f \in Failures : AccountsFail(f)
    \/ Advance
    \/ DispatchTick
    \/ Suspended /\ \E u \in Units : UnitStep(u)
    \/ Suspended /\ SamplerStep
    \/ Suspended /\ \E m \in ReadMethods : GenStep(m)

SpecLoop == InitLoop /\ [][NextLoop]_vars

\* the controller alone, asked for every total and preset: the load
\* generator stays as constructed
InitMix ==
    /\ InitWith(0, 0)
    /\ total_tps \in Totals
    /\ preset \in Presets
    /\ mix = NoMix
    /\ ReadOff
    /\ Untimed

NextMix == ComputeMix

SpecMix == InitMix /\ [][NextMix]_vars


(* ------------------------------- claims ------------------------------- *)
RECURSIVE SumOver(_, _)
SumOver(f, S) ==
    IF S = {} THEN 0
    ELSE LET m == CHOOSE x \in S : TRUE IN f[m] + SumOver(f, S \ {m})

\* the number of Rpc.call invocations made so far
Calls == SumOver(RPC_REQ, Methods)

\* units inside send_tx
InFlight == Cardinality({u \in Units : unitPc[u] \in {"fee", "submit"}})

\* slots of the gate that are taken
Held == CONCURRENCY - sem

\* C1: after N invocations of Rpc.call, made by run(), the sampler and the
\* units in any interleaving and whether they returned or failed, the ids
\* handed out are 1, 2, .., N in this order: each is the previous one plus
\* one, none is repeated and none is skipped.
C1_IdsAreOneToN ==
    /\ Len(assigned) = Calls
    /\ \A i \in 1..Len(assigned) : assigned[i] = i

\* C1 witness: a unit and the sampler have calls in flight at the same time,
\* after a call of an earlier unit has failed
C1_Witness ==
    /\ TX_ERR > 0
    /\ \E u \in Units : unitPc[u] = "fee"
    /\ samplerPc = "head"
    /\ Len(assigned) >= 5

\* C2: every call that has ended, by a result or by a failure, has recorded
\* exactly one latency observation for its method.
C2_OneObservationPerCall ==
    \A m \in Methods : RPC_LAT[m] = returned[m]

\* C3: the submissions in flight never exceed CONCURRENCY, and the slots
\* taken are exactly the units inside send_tx: a slot is held from the
\* moment its unit enters send_tx until the submission ends, by success or
\* by failure.
C3_GateBoundsInFlight ==
    /\ InFlight <= CONCURRENCY
    /\ Held = InFlight
    /\ sem >= 0

\* C3 witness: a submission has failed and given its slot back, and the gate
\* is full again
C3_Witness ==
    /\ TX_ERR > 0
    /\ InFlight = CONCURRENCY
    /\ Held = CONCURRENCY

\* C4: attempted = ok + error + submissions in progress; every finished
\* send_tx has incremented exactly one of ok and error, and no fee call is
\* made without its attempt having been counted.
C4_CountersBalance ==
    /\ TX_SENT = TX_OK + TX_ERR + InFlight
    /\ TX_OK = Cardinality({u \in Units : unitPc[u] = "ok"})
    /\ TX_ERR = Cardinality({u \in Units : unitPc[u] = "err"})
    /\ RPC_REQ["eth_maxPriorityFeePerGas"] = TX_SENT

\* C4 witness: one submission succeeded and one failed
C4_Witness ==
    /\ TX_OK > 0
    /\ TX_ERR > 0

\* C5: once a unit of work has failed, run() is still in its dispatch loop
\* (the failure has neither reached it nor ended the process) and the loop
\* schedules a unit on its next tick.
C5_FailureAbsorbed ==
    TX_ERR > 0 =>
        /\ mainPc = "dispatch"
        /\ ticks < unitCap => ENABLED Tick

\* C5 witness: the dispatch loop has scheduled a unit after a failure, both
\* a fee fetch and a submit having failed
C5_Witness ==
    /\ tickAfterErr
    /\ TX_ERR >= 2
    /\ returned["eth_sendTransaction"] > 0
    /\ TX_OK = 0
    /\ mainPc = "dispatch"

\* the sampler has taken its startup snapshot
SamplerRunning == samplerPc \notin {"none", "created"}

\* C6: every invocation of Rpc.call is counted in exactly one drain or is
\* still in the counter waiting for the next one, so the drained values and
\* the counter add up to the number of calls made; the RPS gauge of a window
\* is the value drained in it divided by the window length (300 drained over
\* 5 seconds give 60).
C6_DrainCountsEveryCallOnce ==
    /\ drained + _rpc_counter = Calls
    /\ windows > 0 => /\ RPS[2] > 0
                      /\ RPS[1] * SAMPLE_WINDOW = lastDrain * RPS[2]
    /\ RpsGauge(300, 5) = <<60, 1>>

\* C6 witness: two drains have taken place, the second returned the calls of
\* several callers, and further calls have been made since
C6_Witness ==
    /\ windows = 2
    /\ lastDrain >= 3
    /\ drained > lastDrain
    /\ _rpc_counter >= 2

\* C7: the sampler leaves TX_OK and TX_ERR as the units counted them; the
\* deltas of all windows so far add up to the increase of each counter from
\* the startup snapshot to the latest snapshot, and what was counted since
\* then is still ahead of the snapshot, to be reported by the next window.
C7_DeltasPartitionTheIncrements ==
    /\ TX_OK = Cardinality({u \in Units : unitPc[u] = "ok"})
    /\ TX_ERR = Cardinality({u \in Units : unitPc[u] = "err"})
    /\ SamplerRunning =>
        /\ sumOkd = last_ok - startOk
        /\ sumErrd = last_err - startErr
        /\ last_ok <= TX_OK
        /\ last_err <= TX_ERR
        /\ okd >= 0
        /\ errd >= 0

\* C7 witness: two windows, each of which reported one success
C7_Witness ==
    /\ windows = 2
    /\ okd = 1
    /\ sumOkd = 2
    /\ TX_OK = 2

\* C8: after every window the failure-rate gauge is errd / (okd + errd) when
\* okd + errd > 0 and 0 otherwise, a value within [0, 1], and the
\* achieved-TPS gauge is okd / W (okd = 25 and errd = 5 with W = 5 give 5 and
\* 5/30).
C8_FailureRateAndTps ==
    /\ windows > 0 =>
        /\ FAIL_RT[2] > 0
        /\ 0 <= FAIL_RT[1]
        /\ FAIL_RT[1] <= FAIL_RT[2]
        /\ okd + errd > 0 => FAIL_RT[1] * (okd + errd) = errd * FAIL_RT[2]
        /\ okd + errd = 0 => FAIL_RT[1] = 0
        /\ ACH_TPS[2] > 0
        /\ ACH_TPS[1] * SAMPLE_WINDOW = okd * ACH_TPS[2]
    /\ LET r == FailureRate(45 - 20, 10 - 5) IN r[1] * 30 = 5 * r[2]
    /\ AchievedTps(45 - 20, 5) = <<5, 1>>

\* C8 witness: a window in which one submission succeeded and one failed
C8_Witness ==
    /\ windows > 0
    /\ okd = 1
    /\ errd = 1
    /\ FAIL_RT = <<1, 2>>

\* the sampler's head fetch of this step returned a block
HeadReturned == samplerPc = "head" /\ samplerPc' \in {"sleep", "parent"}

\* C9: when the head fetched in a window is no newer than the recorded
\* block, the MegaGas/second gauge keeps the value it had, the recorded
\* number stays, and no parent block is fetched.
C9_QuietWindowKeepsGauge ==
    [][(HeadReturned /\ blk'.number <= last_num) =>
          /\ MGAS_S' = MGAS_S
          /\ last_mgas' = last_mgas
          /\ last_num' = last_num
          /\ samplerPc' = "sleep"
          /\ RPC_REQ'["eth_getBlockByHash"] = RPC_REQ["eth_getBlockByHash"]]_vars

\* C9 witness: a window with a new block has set the gauge, and the next
\* window, whose head is another block no newer than the recorded one, has
\* ended with the gauge still set
C9_Witness ==
    /\ windows = 2
    /\ samplerPc = "sleep"
    /\ RPC_REQ["eth_getBlockByHash"] = 1
    /\ blk.number <= last_num
    /\ MGAS_S # Zero
    /\ MGAS_S # MGasPerS(blk.gasUsed, blk.timestamp, parent)

\* C10: when the head fetched is newer than the recorded block, the sampler
\* fetches the parent by the head's parentHash; when the parent returns, the
\* gauge becomes gasUsed / max(ts - pts, 1) / 10^6, with a divisor that is
\* never below 1, and the head's number is recorded (15,000,000 gas between
\* timestamps 100 and 112 give 1.25).
C10_NewBlockSetsGauge ==
    [][ /\ (HeadReturned /\ blk'.number > last_num) =>
              /\ samplerPc' = "parent"
              /\ samplerReq'.method = "eth_getBlockByHash"
              /\ samplerReq'.hash = blk'.parentHash
              /\ last_num' = last_num
        /\ (samplerPc = "parent" /\ samplerPc' = "sleep") =>
              LET elapsed == IF blk.timestamp - parent' >= 1
                             THEN blk.timestamp - parent' ELSE 1
              IN /\ MGAS_S'[2] > 0
                 /\ MGAS_S'[1] * (elapsed * MegaGas) = blk.gasUsed * MGAS_S'[2]
                 /\ last_mgas' = MGAS_S'
                 /\ last_num' = blk.number
        /\ MGasPerS(15000000, 112, 100) = <<5, 4>> ]_vars

\* C10 witness: a new block stamped 100 whose parent is stamped 112: the
\* divisor is 1 and the gauge is the block's 30,000,000 gas in MegaGas
C10_Witness ==
    /\ windows = 1
    /\ samplerPc = "sleep"
    /\ returned["eth_getBlockByHash"] = 1
    /\ blk.timestamp = 100
    /\ parent = 112
    /\ last_num = blk.number
    /\ MGAS_S = <<30, 1>>


\* C11: the sampler has no terminal state: once started it is always in its
\* loop (priming, sleeping out a window or fetching), also after a window in
\* which a fetch has failed, so that a later window can be sampled.
C11_SamplerNeverStops ==
    SamplerRunning => samplerPc \in {"prime", "sleep", "head", "parent"}


\* the units whose task the dispatch loop has created
Scheduled == {u \in Units : unitPc[u] # "none"}

\* C14: every tick schedules exactly one unit and the dispatch loop goes on
\* without waiting for it: the units scheduled are as many as the ticks, the
\* loop can take its next tick whatever the state of the gate and of the
\* units, and the units that found the gate full are exactly those queued on
\* it.
C14_SchedulingDecoupled ==
    /\ Cardinality(Scheduled) = ticks
    /\ Scheduled = 1..ticks
    /\ (mainPc = "dispatch" /\ ticks < unitCap) => ENABLED Tick
    /\ \A u \in Units :
           unitPc[u] = "waiting" <=> \E i \in 1..Len(waiters) : waiters[i] = u

\* every slot is held, a later unit is queued behind, and the loop has
\* taken all its ticks meanwhile
C14_Witness ==
    /\ sem = 0
    /\ waiters # <<>>
    /\ ticks = unitCap
    /\ Cardinality({u \in Units : unitPc[u] \in {"fee", "submit"}}) = CONCURRENCY


\* the first addresses of the non-empty lists eth_accounts may return
FirstAddresses == {accs[1] : accs \in AccountLists \ {<<>>}}

\* C15: before the account discovery has returned a non-empty list, and
\* for ever after it has failed or returned an empty one, the program has
\* issued no call but eth_accounts, counted no transaction, and started
\* neither the sampler nor a read loop nor any unit of work, also when read
\* rates are configured; the dispatch loop runs only
\* with the first address of the list as sender, and every transaction
\* submitted is sent from it.
C15_DiscoveryBeforeTraffic ==
    /\ mainPc \in {"start", "accounts", "aborted"} =>
           /\ \A m \in Methods \ {"eth_accounts"} : RPC_REQ[m] = 0
           /\ RPC_REQ["eth_accounts"] <= 1
           /\ TX_SENT = 0 /\ TX_OK = 0 /\ TX_ERR = 0
           /\ samplerPc = "none"
           /\ samplerReq = NoReq
           /\ \A m \in ReadMethods : genPc[m] = "none"
           /\ ticks = 0
           /\ Scheduled = {}
    /\ mainPc = "dispatch" => sender \in FirstAddresses
    /\ \A u \in Units :
           unitReq[u].method = "eth_sendTransaction" =>
               unitReq[u].tx.from = sender /\ sender \in FirstAddresses

\* the discovery has ended without a sender and the process has aborted,
\* with a read rate configured
C15_Witness ==
    /\ mainPc = "aborted"
    /\ returned["eth_accounts"] = 1
    /\ \E m \in ReadMethods : rps[m] > 0


\* the units whose eth_sendTransaction is in flight
Submitting == {u \in Units : unitReq[u].method = "eth_sendTransaction"}

\* C17: a transaction submitted after the fee estimation returned e carries
\* the priority fee max(e, 10^9), the max fee 2 * max(e, 10^9) and the gas
\* limit 21000 (e = 500,000,000: 1,000,000,000 and 2,000,000,000); its max
\* fee is twice its priority fee and at least 2 * 10^9.
C17_FeeFloorAndCap ==
    \A u \in Submitting :
        LET tx == unitReq[u].tx
            e == tip_wei[u]
            floored == IF e >= 1000000000 THEN e ELSE 1000000000
        IN /\ Int16(tx.maxPriorityFeePerGas) = floored
           /\ Int16(tx.maxFeePerGas) = 2 * floored
           /\ Int16(tx.gas) = 21000
           /\ Int16(tx.maxFeePerGas) = 2 * Int16(tx.maxPriorityFeePerGas)
           /\ Int16(tx.maxFeePerGas) >= 2000000000
           /\ e = 500000000 =>
                  /\ Int16(tx.maxPriorityFeePerGas) = 1000000000
                  /\ Int16(tx.maxFeePerGas) = 2000000000

\* a transaction is submitted after an estimate of 500,000,000, below the
\* floor
C17_Witness ==
    \E u \in Submitting :
        /\ tip_wei[u] = 500000000
        /\ unitReq[u].tx.maxPriorityFeePerGas = Hex(1000000000)


\* C18: compute_mix returns the exact shares of the total: with "even" a
\* fifth of it for each of tps, rps_block, rps_bal and rps_call; with
\* "write" 35% of it for tps and 10% of it for each read rate; a negative
\* total counts as 0 and no rate is negative.
C18_MixIsExactShare ==
    mix # NoMix =>
        LET t == IF total_tps < 0 THEN 0 ELSE total_tps
        IN /\ preset = "even" =>
                  /\ 5 * mix.tps = t
                  /\ 5 * mix.rps_block = t
                  /\ 5 * mix.rps_bal = t
                  /\ 5 * mix.rps_call = t
           /\ preset = "write" =>
                  /\ 100 * mix.tps = 35 * t
                  /\ 10 * mix.rps_block = t
                  /\ 10 * mix.rps_bal = t
                  /\ 10 * mix.rps_call = t
           /\ mix.tps >= 0 /\ mix.rps_block >= 0
           /\ mix.rps_bal >= 0 /\ mix.rps_call >= 0


C13_DeadlinesDoNotDrift ==
    limPc # "new" =>
        /\ TPS * (limNext - limStart) = limTicks * Second
        /\ TPS * (now - limStart) >= (limTicks - 1) * Second
        /\ limNext > now =>
               /\ limTicks * Second - TPS * (now - limStart) <= Second
               /\ limTicks * Second - TPS * (now - limStart) >= 0 - Second

\* a tick is overdue by a whole second after others have fired
C13_Witness ==
    /\ limPc # "new"
    /\ limTicks >= 2
    /\ now >= limNext + Second


\* a step in which the call in flight of the read loop of m ends
GenCallEnds(m) == genPc[m] = "call" /\ returned'[m] = returned[m] + 1

\* C12: the end of a read loop's call, by a failure as by a result, changes
\* no transaction counter and does not reach run(); the loop stays in its
\* cycle and its deadline moves on by exactly one interval.
C12_ReadFailureDiscarded ==
    [][\A m \in ReadMethods :
           GenCallEnds(m) =>
               /\ <<TX_SENT, TX_OK, TX_ERR>>' = <<TX_SENT, TX_OK, TX_ERR>>
               /\ mainPc' = mainPc
               /\ genPc'[m] \in {"sleep", "call"}
               /\ rps[m] * (genNext'[m] - genNext[m]) = Second]_vars

\* a call of a read loop has failed after its post returned (two latency
\* observations for one call) and the loop has issued its next call
C12_Witness ==
    \E m \in ReadMethods :
        /\ RPC_LAT[m] > returned[m]
        /\ genPc[m] = "call"
        /\ RPC_REQ[m] = returned[m] + 1

\* C16: a read method whose rate is <= 0 has no loop and issues no call,
\* ever; every method whose rate is positive has its loop once the dispatch
\* has begun, and that loop keeps its own deadlines, one interval of its own
\* rate further for every call it has finished, whatever the other loops do.
C16_ZeroRateDisablesGenerator ==
    \A m \in ReadMethods :
        /\ rps[m] <= 0 =>
               /\ genPc[m] = "none"
               /\ RPC_REQ[m] = 0
               /\ returned[m] = 0
        /\ (rps[m] > 0 /\ mainPc = "dispatch") => genPc[m] # "none"
        /\ (rps[m] > 0 /\ genPc[m] \in {"sleep", "call"}) =>
               rps[m] * (genNext[m] - genStart[m]) = returned[m] * Second

\* one method is disabled while two loops of different rates have both
\* finished calls
C16_Witness ==
    \E m0, m1, m2 \in ReadMethods :
        /\ rps[m0] <= 0
        /\ rps[m1] > 0 /\ rps[m2] > rps[m1]
        /\ returned[m1] >= 1 /\ returned[m2] >= 2
        /\ mainPc = "dispatch" /\ now = timeCap

\* C20: a read loop has at most one call in flight, and a new one only
\* after the last has ended; it has issued no more calls than deadlines of
\* its own have passed; when a call ends after the following deadline, the
\* next call is issued in the same step, without a sleep, and when it ends
\* before it the loop sleeps.
C20_OneCallInFlight ==
    /\ [](\A m \in ReadMethods :
             /\ RPC_REQ[m] - returned[m] = (IF genPc[m] = "call" THEN 1 ELSE 0)
             /\ RPC_REQ[m] >= 1 =>
                    (RPC_REQ[m] - 1) * Second <= rps[m] * (now - genStart[m]))
    /\ [][\A m \in ReadMethods :
             /\ RPC_REQ'[m] > RPC_REQ[m] =>
                    /\ RPC_REQ'[m] = RPC_REQ[m] + 1
                    /\ RPC_REQ[m] = returned'[m]
             /\ GenCallEnds(m) =>
                    IF genNext'[m] <= now
                    THEN genPc'[m] = "call" /\ RPC_REQ'[m] = RPC_REQ[m] + 1
                    ELSE genPc'[m] = "sleep" /\ RPC_REQ'[m] = RPC_REQ[m]]_vars

\* the call in flight, not the loop's first, has outlasted its interval: the
\* following deadline has passed
C20_Witness ==
    \E m \in ReadMethods :
        /\ genPc[m] = "call"
        /\ RPC_REQ[m] >= 2
        /\ now >= genNext[m] + Interval(rps[m])


\* C21: with a transaction rate <= 0 the pacer's interval is 0: its deadline
\* stays where it started, it never sleeps, and the dispatch loop, which
\* suspends nowhere else, takes tick after tick whatever the clock reads;
\* every tick schedules a unit, and neither a scheduled unit nor the sampler
\* nor a read loop ever takes a step: they stay as created and no call but
\* the account discovery is ever issued.
C21_ZeroRateNeverYields ==
    (TPS <= 0 /\ mainPc = "dispatch") =>
        /\ limPc # "asleep"
        /\ ~Suspended
        /\ limPc # "new" => (limNext = limStart /\ limNext <= now)
        /\ ticks < unitCap => ENABLED DispatchTick
        /\ Scheduled = 1..ticks
        /\ \A u \in Scheduled : unitPc[u] = "created"
        /\ samplerPc = "created"
        /\ \A m \in ReadMethods : genPc[m] = (IF rps[m] > 0 THEN "created" ELSE "none")
        /\ \A m \in Methods \ {"eth_accounts"} : RPC_REQ[m] = 0
        /\ TX_SENT = 0
        /\ sem = CONCURRENCY

\* with a rate <= 0 every unit the run is followed for has been scheduled,
\* the clock has moved on, and the units, the sampler and the configured
\* read loop are all still waiting for their first step
C21_Witness ==
    /\ TPS <= 0
    /\ ticks = unitCap
    /\ now = timeCap
    /\ \A u \in Units : unitPc[u] = "created"
    /\ samplerPc = "created"
    /\ genPc["eth_blockNumber"] = "created"

=============================================================================
